---- MODULE Spec2Model ----
(***************************************************************************)
(* tools/gen_spleen.py: the Spleen 8x16 font table generator.              *)
(*                                                                         *)
(* A text line is a sequence of one-character strings.  None (Python's     *)
(* None) is the empty sequence, a present value v is <<v>>; a successfully *)
(* parsed legacy table is a sequence of 256 glyphs, so Python's truth test *)
(* of "asm_fallback" is the test "# None".                                 *)
(***************************************************************************)
EXTENDS Integers, Sequences, FiniteSets, TLC

\* ------------------------------------------------------------- constants

\* range(256): the number of glyphs of a table
NumGlyphs == 256

\* the font height: rows per glyph
GlyphHeight == 16

\* 256 * 16: the number of rows parse_asm expects
NumRows == NumGlyphs * GlyphHeight

\* ASM_LABEL = 'spleen:'
ASM_LABEL == <<"s", "p", "l", "e", "e", "n", ":">>

None == <<>>

Some(v) == <<v>>

\* ------------------------------------------------------------- str helpers

SetMin(S) == CHOOSE x \in S : \A y \in S : x <= y

SetMax(S) == CHOOSE x \in S : \A y \in S : y <= x

\* str.strip(): leading and trailing whitespace removed
Strip(s) ==
    LET idx == {i \in 1..Len(s) : s[i] # " "}
    IN  IF idx = {} THEN <<>> ELSE SubSeq(s, SetMin(idx), SetMax(idx))

\* str.startswith(p)
StartsWith(s, p) == Len(s) >= Len(p) /\ SubSeq(s, 1, Len(p)) = p

\* the index of the first non-blank character of s at or after i (Len(s)+1: none)
SkipSpaces(s, i) ==
    LET idx == {k \in i..Len(s) : s[k] # " "}
    IN  IF idx = {} THEN Len(s) + 1 ELSE SetMin(idx)

\* the index of the first blank of s at or after i (Len(s)+1: none)
FindSpace(s, i) ==
    LET idx == {k \in i..Len(s) : s[k] = " "}
    IN  IF idx = {} THEN Len(s) + 1 ELSE SetMin(idx)

\* str.split(): the whitespace-separated words of s
RECURSIVE Split(_)
Split(s) ==
    LET b == SkipSpaces(s, 1)
    IN  IF b > Len(s) THEN <<>>
        ELSE LET e == FindSpace(s, b)
             IN  <<SubSeq(s, b, e - 1)>> \o Split(SubSeq(s, e, Len(s)))

DecDigits == <<"0", "1", "2", "3", "4", "5", "6", "7", "8", "9">>

HexUpper == <<"0", "1", "2", "3", "4", "5", "6", "7", "8", "9",
              "A", "B", "C", "D", "E", "F">>

HexLower == <<"0", "1", "2", "3", "4", "5", "6", "7", "8", "9",
              "a", "b", "c", "d", "e", "f">>

IsDecDigit(c) == \E i \in 1..10 : DecDigits[i] = c

IsHexDigit(c) == \E i \in 1..16 : HexUpper[i] = c \/ HexLower[i] = c

HexDigitVal(c) == (CHOOSE i \in 1..16 : HexUpper[i] = c \/ HexLower[i] = c) - 1

\* the value of the digit string ds in the given base, most significant first
RECURSIVE DigitsValue(_, _)
DigitsValue(ds, base) ==
    IF ds = <<>> THEN 0
    ELSE DigitsValue(SubSeq(ds, 1, Len(ds) - 1), base) * base
         + HexDigitVal(ds[Len(ds)])

\* int(tok): Some(value) for an optional sign followed by decimal digits,
\* None where int raises ValueError
ParseInt(tok) ==
    LET signed == tok # <<>> /\ tok[1] \in {"+", "-"}
        ds     == IF signed THEN Tail(tok) ELSE tok
    IN  IF ds # <<>> /\ \A i \in 1..Len(ds) : IsDecDigit(ds[i])
        THEN Some((IF signed /\ tok[1] = "-" THEN -1 ELSE 1) * DigitsValue(ds, 10))
        ELSE None

\* ROW_RE.match(line): the text of group 1 (eight binary digits), None for no match
RowMatch(line) ==
    LET i == SkipSpaces(line, 1)
        j == SkipSpaces(line, i + 2)
    IN  IF /\ i + 1 <= Len(line)
           /\ line[i] = "d"
           /\ line[i + 1] = "b"
           /\ j + 8 <= Len(line)
           /\ \A k \in j..(j + 7) : line[k] \in {"0", "1"}
           /\ line[j + 8] = "b"
        THEN Some(SubSeq(line, j, j + 7))
        ELSE None

\* re.fullmatch(r'[0-9A-Fa-f]{2}', line)
IsHexRow(line) == Len(line) = 2 /\ IsHexDigit(line[1]) /\ IsHexDigit(line[2])

\* ------------------------------------------------------------- parse_asm

\* the loop state of parse_asm before the first line
AsmStart == [rows |-> <<>>, in_table |-> FALSE, broke |-> FALSE]

\* AsmStep without the wait for the marker line: every matching row counts
AsmStep_NoMarker(st, line) ==
    IF st.broke THEN st
    ELSE LET m == RowMatch(line)
         IN  IF m # None
             THEN LET rows == Append(st.rows, DigitsValue(m[1], 2))
                  IN  [st EXCEPT !.rows = rows, !.broke = (Len(rows) = NumRows)]
             ELSE st

\* one iteration of parse_asm's loop; "broke" records the break, after which
\* no line is read
AsmStep(st, line) ==
    IF st.broke THEN st
    ELSE IF ~st.in_table
    THEN IF StartsWith(Strip(line), ASM_LABEL)
         THEN [st EXCEPT !.in_table = TRUE]
         ELSE st
    ELSE LET m == RowMatch(line)
         IN  IF m # None
             THEN LET rows == Append(st.rows, DigitsValue(m[1], 2))
                  IN  [st EXCEPT !.rows = rows, !.broke = (Len(rows) = NumRows)]
             ELSE st

\* the loop of parse_asm over lines[lo..hi], in order; after the break the
\* remaining lines are not read
RECURSIVE AsmLoop(_, _, _, _)
AsmLoop(lines, lo, hi, st) ==
    IF lo > hi THEN st
    ELSE IF lo = hi THEN AsmStep(st, lines[lo])
    ELSE LET mid  == (lo + hi) \div 2
             left == AsmLoop(lines, lo, mid, st)
         IN  IF left.broke THEN left ELSE AsmLoop(lines, mid + 1, hi, left)

\* rows[i*16:(i+1)*16] for i in range(256)
SliceRows(rows) ==
    [i \in 1..NumGlyphs |-> SubSeq(rows, (i - 1) * GlyphHeight + 1, i * GlyphHeight)]

\* parse_asm without the test of the row count: a short table is filled up
parse_asm_Partial(f) ==
    IF ~f.exists THEN None
    ELSE LET st == AsmLoop(f.lines, 1, Len(f.lines), AsmStart)
         IN  IF st.rows = <<>> THEN None
             ELSE SliceRows([k \in 1..NumRows |->
                               IF k <= Len(st.rows) THEN st.rows[k] ELSE 0])

\* parse_asm on a file: f.exists, f.lines
parse_asm(f) ==
    IF ~f.exists THEN None
    ELSE LET st == AsmLoop(f.lines, 1, Len(f.lines), AsmStart)
         IN  IF Len(st.rows) # NumRows THEN None ELSE SliceRows(st.rows)

\* ------------------------------------------------------------- legacy inputs

\* rows after the marker in a file that is too short
ShortRows == 10

\* matching rows after the 4096th
ExtraRows == 1

\* matching rows before the marker line
PreRows == 2

\* a non-matching line precedes every GapEvery rows of a commented file
GapEvery == 16

\* the eight binary digits of v, most significant first
Bits8(v) == [k \in 1..8 |-> IF (v \div (2 ^ (8 - k))) % 2 = 1 THEN "1" ELSE "0"]

\* the value written on the k-th matching row after the marker (k from 0)
AsmRowVal(mult, k) == ((k + k \div NumGlyphs) * mult) % 256

\* a row line, in one of two layouts
AsmRowLine(v, k) ==
    IF k % 2 = 0
    THEN <<" ", " ", " ", " ", "d", "b", " ">> \o Bits8(v) \o <<"b">>
    ELSE <<"d", "b", " ", " ">> \o Bits8(v) \o <<"b", " ", ";", " ", "c">>

\* lines ROW_RE does not match: a comment, and a literal of seven digits
AsmJunkLine(k) ==
    IF k % 2 = 0
    THEN <<";", " ", "g", "l", "y", "p", "h">>
    ELSE <<" ", "d", "b", " ", "0", "1", "0", "1", "0", "1", "0", "b">>

AsmLabelLine == <<" ", "s", "p", "l", "e", "e", "n", ":", " ", ";", " ", "t">>

\* the lines after the marker: nrows rows, a junk line before every gap of them
AsmBody(nrows, gap, mult) ==
    IF gap = 0
    THEN [m \in 1..nrows |-> AsmRowLine(AsmRowVal(mult, m - 1), m - 1)]
    ELSE LET total == nrows + (nrows + gap - 1) \div gap
         IN  [m \in 1..total |->
                 LET pos == (m - 1) % (gap + 1)
                     k   == ((m - 1) \div (gap + 1)) * gap + pos - 1
                 IN  IF pos = 0 THEN AsmJunkLine(m \div (gap + 1))
                     ELSE AsmRowLine(AsmRowVal(mult, k), k)]

\* a legacy file: pre rows of 0xFF before the marker, the marker line (if
\* label), then the body
MkAsm(pre, label, nrows, gap, mult) ==
    [exists |-> TRUE, label |-> label, nrows |-> nrows, mult |-> mult,
     lines  |-> [m \in 1..pre |-> AsmRowLine(255, m)]
                \o (IF label THEN <<AsmLabelLine>> ELSE <<>>)
                \o AsmBody(nrows, gap, mult)]

\* the legacy files of the model
AsmFiles ==
    << [exists |-> FALSE, label |-> FALSE, nrows |-> 0, mult |-> 0, lines |-> <<>>],
       MkAsm(0, FALSE, NumRows, 0, 7),
       MkAsm(PreRows, TRUE, ShortRows, 0, 7),
       MkAsm(NumRows, TRUE, NumRows - 1, GapEvery, 7),
       MkAsm(0, TRUE, NumRows, 0, 0),
       MkAsm(PreRows, TRUE, NumRows + ExtraRows, GapEvery, 7) >>

AsmIds == 1..Len(AsmFiles)

\* parse_asm on each file of the model
AsmParsed == [i \in AsmIds |-> parse_asm(AsmFiles[i])]

\* ------------------------------------------------------------- parse_bdf

ENCODING_ == <<"E", "N", "C", "O", "D", "I", "N", "G", " ">>

BITMAP == <<"B", "I", "T", "M", "A", "P">>

ENDCHAR == <<"E", "N", "D", "C", "H", "A", "R">>

\* the locals of parse_bdf before the first line
BdfStart == [glyphs |-> <<>>, enc |-> None, collecting |-> FALSE, bitmap_rows |-> <<>>]

\* GlyphRows without the [:16]
GlyphRows_NoTruncate(bitmap_rows) ==
    LET n    == Len(bitmap_rows)
        rows == [i \in 1..n |-> DigitsValue(bitmap_rows[i], 16) % 256]
    IN  rows \o [i \in 1..(GlyphHeight - n) |-> 0]

\* rows = [int(r, 16) & 0xFF for r in bitmap_rows[:16]], then padded with 0 to 16
GlyphRows(bitmap_rows) ==
    LET n    == IF Len(bitmap_rows) < GlyphHeight THEN Len(bitmap_rows) ELSE GlyphHeight
        rows == [i \in 1..n |-> DigitsValue(bitmap_rows[i], 16) % 256]
    IN  rows \o [i \in 1..(GlyphHeight - n) |-> 0]

\* Store under the low byte of the codepoint
Store_Masked(glyphs, cp, rows) ==
    [c \in DOMAIN glyphs \cup {cp % 256} |-> IF c = cp % 256 THEN rows ELSE glyphs[c]]

\* glyphs[cp] = rows
Store(glyphs, cp, rows) ==
    [c \in DOMAIN glyphs \cup {cp} |-> IF c = cp THEN rows ELSE glyphs[c]]

\* EndChar that stores nothing for a definition without rows
EndChar_SkipEmpty(st) ==
    [glyphs      |-> IF st.enc # None /\ st.collecting /\ st.bitmap_rows # <<>>
                     THEN Store(st.glyphs, st.enc[1], GlyphRows(st.bitmap_rows))
                     ELSE st.glyphs,
     enc         |-> None,
     collecting  |-> FALSE,
     bitmap_rows |-> <<>>]

\* the ENDCHAR branch of parse_bdf's loop
EndChar(st) ==
    [glyphs      |-> IF st.enc # None /\ st.collecting
                     THEN Store(st.glyphs, st.enc[1], GlyphRows(st.bitmap_rows))
                     ELSE st.glyphs,
     enc         |-> None,
     collecting  |-> FALSE,
     bitmap_rows |-> <<>>]

\* Encoding that keeps the old enc when int raises
Encoding_KeepOld(st, line) ==
    LET v == ParseInt(Split(line)[2])
    IN  IF v = None THEN st ELSE [st EXCEPT !.enc = v]

\* the ENCODING branch: enc = int(line.split()[1]), None if int raises
Encoding(st, line) == [st EXCEPT !.enc = ParseInt(Split(line)[2])]

\* Bitmap that keeps the rows collected so far
Bitmap_KeepRows(st) == [st EXCEPT !.collecting = TRUE]

\* the BITMAP branch
Bitmap(st) == [st EXCEPT !.collecting = TRUE, !.bitmap_rows = <<>>]

\* the last branch: a line read while collecting
Collect(st, line) ==
    IF IsHexRow(line)
    THEN [st EXCEPT !.bitmap_rows = Append(st.bitmap_rows, line)]
    ELSE st

\* one iteration of parse_bdf's loop
BdfStep(st, raw) ==
    LET line == Strip(raw)
    IN  IF StartsWith(line, ENCODING_) THEN Encoding(st, line)
        ELSE IF line = BITMAP THEN Bitmap(st)
        ELSE IF line = ENDCHAR THEN EndChar(st)
        ELSE IF st.collecting THEN Collect(st, line)
        ELSE st

\* the loop of parse_bdf over lines[lo..hi], in order.  The loop has no break:
\* the test on "left" is never true, it makes TLC, which evaluates operator
\* arguments lazily, finish the first half before it enters the second.
RECURSIVE BdfLoop(_, _, _, _)
BdfLoop(lines, lo, hi, st) ==
    IF lo > hi THEN st
    ELSE IF lo = hi THEN BdfStep(st, lines[lo])
    ELSE LET mid  == (lo + hi) \div 2
             left == BdfLoop(lines, lo, mid, st)
         IN  IF DOMAIN left = {} THEN left ELSE BdfLoop(lines, mid + 1, hi, left)

\* ------------------------------------------------------------- primary inputs

\* the chunks of lines a primary file of the model is made of, after its start
MaxSegs == 5

\* the decimal text of n >= 0
RECURSIVE DecText(_)
DecText(n) ==
    IF n < 10 THEN <<DecDigits[n + 1]>>
    ELSE DecText(n \div 10) \o <<DecDigits[(n % 10) + 1]>>

\* the two upper-case hexadecimal digits of v
Hex2(v) == <<HexUpper[(v \div 16) + 1], HexUpper[(v % 16) + 1]>>

STARTCHAR_ == <<"S", "T", "A", "R", "T", "C", "H", "A", "R", " ", "c">>

\* the row values of a run of n row lines
RunVal(n, k) == (16 * k + n) % 256

\* the row values of the font's definition of cp
FontVals(cp) == <<cp, 255 - cp>>

\* a well-formed definition of cp with the given row values
DefLines(cp, vals) ==
    <<STARTCHAR_, ENCODING_ \o DecText(cp), BITMAP>>
    \o [k \in 1..Len(vals) |-> Hex2(vals[k])]
    \o <<ENDCHAR>>

\* a complete font: one well-formed definition for each of 0..255
RECURSIVE FontLines(_, _)
FontLines(lo, hi) ==
    IF lo = hi THEN DefLines(lo, FontVals(lo))
    ELSE LET mid == (lo + hi) \div 2
         IN  FontLines(lo, mid) \o FontLines(mid + 1, hi)

\* what a chunk of lines is, for the properties: kind, the codepoint it
\* declares (cp), the values of its row lines (vals), and its lines
Chunk(kind, cp, vals, lines) == [kind |-> kind, cp |-> cp, vals |-> vals, lines |-> lines]

BdfChunks ==
    << Chunk("enc", Some(5), <<>>, <<ENCODING_ \o DecText(5)>>),
       Chunk("enc", Some(300), <<>>, <<<<" ">> \o ENCODING_ \o DecText(300) \o <<" ", "0">>>>),
       Chunk("enc", Some(-1), <<>>, <<ENCODING_ \o <<"-", "1">>>>),
       Chunk("encbad", None, <<>>, <<ENCODING_ \o <<"0", "x", "4", "1">>>>),
       Chunk("bitmap", None, <<>>, <<BITMAP>>),
       Chunk("endchar", None, <<>>, <<ENDCHAR \o <<" ">>>>),
       Chunk("rows", None, <<255>>, <<<<" ", "f", "f", " ">>>>),
       Chunk("rows", None, [k \in 1..GlyphHeight |-> RunVal(GlyphHeight, k)],
             [k \in 1..GlyphHeight |-> Hex2(RunVal(GlyphHeight, k))]),
       Chunk("junk", None, <<>>, <<<<"F", "F", "F">>>>),
       Chunk("def", Some(5), <<165>>, DefLines(5, <<165>>)) >>

ChunkIds == 1..Len(BdfChunks)

\* parse_bdf's locals after a complete font
FontParsed ==
    LET lines == FontLines(0, NumGlyphs - 1)
    IN  BdfLoop(lines, 1, Len(lines), BdfStart)

\* ------------------------------------------------------------- build_glyph_table

\* [0]*16
ZeroGlyph == [j \in 1..GlyphHeight |-> 0]

\* ResolveGlyph that asks the fallback first
ResolveGlyph_FallbackFirst(cp, bdf_glyphs, asm_fallback) ==
    IF asm_fallback # None /\ 0 <= cp /\ cp < Len(asm_fallback)
    THEN asm_fallback[cp + 1]
    ELSE IF cp \in DOMAIN bdf_glyphs THEN bdf_glyphs[cp]
    ELSE ZeroGlyph

\* the body of the loop "for cp in range(256)"
ResolveGlyph(cp, bdf_glyphs, asm_fallback) ==
    IF cp \in DOMAIN bdf_glyphs THEN bdf_glyphs[cp]
    ELSE IF asm_fallback # None /\ 0 <= cp /\ cp < Len(asm_fallback)
    THEN asm_fallback[cp + 1]
    ELSE ZeroGlyph

\* the table of the .bdf branch
MergeTable(bdf_glyphs, asm_fallback) ==
    [i \in 1..NumGlyphs |-> ResolveGlyph(i - 1, bdf_glyphs, asm_fallback)]

FALLBACK_NOTE == " + ASM fallback"

\* f"{src_path} (BDF)" + (" + ASM fallback" if asm_fallback else "")
BdfDesc(asm_fallback) ==
    <<"src", " (BDF)">> \o (IF asm_fallback # None THEN <<FALLBACK_NOTE>> ELSE <<>>)

\* f"{src_path} (ASM)"
AsmDesc == <<"src", " (ASM)">>

\* str.lower() on the letters of the model's suffixes
Lower(c) ==
    CASE c = "B" -> "b" [] c = "D" -> "d" [] c = "F" -> "f" [] OTHER -> c

\* src_path.suffix.lower()
LowerSuffix(suffix) == [i \in 1..Len(suffix) |-> Lower(suffix[i])]

\* the suffixes of the source path
Suffixes == { <<".", "b", "d", "f">>, <<".", "B", "D", "F">>,
              <<".", "a", "s", "m">>, <<".", "t", "x", "t">> }

\* the values of len(sys.argv)
Argcs == 1..4

\* ------------------------------------------------------------- the program

VARIABLES
    pc,           \* where the run is: main, parse_bdf, emit, exit
    argc,         \* len(sys.argv)
    ext,          \* build_glyph_table: ext
    glyphs,       \* parse_bdf: glyphs (bdf_glyphs once parse_bdf has returned)
    enc,          \* parse_bdf: enc
    collecting,   \* parse_bdf: collecting
    bitmap_rows,  \* parse_bdf: bitmap_rows
    nread,        \* chunks of lines parse_bdf has read
    asm_fallback, \* build_glyph_table: asm_fallback
    table,        \* the table build_glyph_table returns (None: none yet)
    desc,         \* the source description it returns
    out,          \* the output file: None until opened, then what was written
    status,       \* the exit status: None while running
    diag,         \* the diagnostic printed at exit
    asmFile,      \* history: the legacy file parse_asm read (0: none)
    seen,         \* history: the input of the current definition
    ndefs         \* history: definitions stored so far, by codepoint

vars == <<pc, argc, ext, glyphs, enc, collecting, bitmap_rows, nread,
          asm_fallback, table, desc, out, status, diag, asmFile, seen, ndefs>>

bdfVars == <<glyphs, enc, collecting, bitmap_rows, nread, seen, ndefs>>

\* nothing of the current definition read yet
SeenStart == [cp |-> None, bad |-> FALSE, bitmap |-> FALSE, vals |-> <<>>]

Init ==
    /\ pc = "main"
    /\ argc \in Argcs
    /\ ext \in {LowerSuffix(s) : s \in Suffixes}
    /\ glyphs = <<>>
    /\ enc = None
    /\ collecting = FALSE
    /\ bitmap_rows = <<>>
    /\ nread = 0
    /\ asm_fallback = None
    /\ table = None
    /\ desc = None
    /\ out = None
    /\ status = None
    /\ diag = None
    /\ asmFile = 0
    /\ seen = SeenStart
    /\ ndefs = <<>>

\* Exit of a run that opened the output before building the table
Exit_Truncated(code, msg) ==
    /\ pc' = "exit"
    /\ status' = Some(code)
    /\ diag' = Some(msg)
    /\ out' = Some([source |-> None, glyphs |-> <<>>])
    /\ UNCHANGED <<argc, ext, asm_fallback, table, desc, asmFile>>
    /\ UNCHANGED bdfVars

\* exit with a status and a diagnostic, before anything is built
Exit(code, msg) ==
    /\ pc' = "exit"
    /\ status' = Some(code)
    /\ diag' = Some(msg)
    /\ UNCHANGED <<argc, ext, asm_fallback, table, desc, out, asmFile>>
    /\ UNCHANGED bdfVars

\* main: fewer than two positional arguments
Usage ==
    /\ pc = "main"
    /\ argc < 3
    /\ Exit(1, "Usage")

\* build_glyph_table: neither .bdf nor .asm
Unsupported ==
    /\ pc = "main"
    /\ argc >= 3
    /\ ext \notin {<<".", "b", "d", "f">>, <<".", "a", "s", "m">>}
    /\ Exit(1, "Unsupported source extension")

\* build_glyph_table, .asm branch: parse_asm on the source
BuildAsm ==
    /\ pc = "main"
    /\ argc >= 3
    /\ ext = <<".", "a", "s", "m">>
    /\ \E f \in AsmIds :
          LET t == AsmParsed[f]
          IN  /\ asmFile' = f
              /\ IF t = None
                 THEN /\ pc' = "exit"
                      /\ status' = Some(1)
                      /\ diag' = Some("Failed to parse ASM font table")
                      /\ UNCHANGED <<table, desc>>
                 ELSE /\ pc' = "emit"
                      /\ table' = t
                      /\ desc' = AsmDesc
                      /\ UNCHANGED <<status, diag>>
    /\ UNCHANGED <<argc, ext, asm_fallback, out>>
    /\ UNCHANGED bdfVars

\* build_glyph_table, .bdf branch: parse_bdf cannot read the source
BdfMissing ==
    /\ pc = "main"
    /\ argc >= 3
    /\ ext = <<".", "b", "d", "f">>
    /\ Exit(1, "FileNotFoundError")

\* build_glyph_table, .bdf branch: parse_bdf starts on a source that is
\* empty so far, or that starts with a complete font
BdfOpen ==
    /\ pc = "main"
    /\ argc >= 3
    /\ ext = <<".", "b", "d", "f">>
    /\ \E st \in {BdfStart, FontParsed} :
          /\ glyphs' = st.glyphs
          /\ enc' = st.enc
          /\ collecting' = st.collecting
          /\ bitmap_rows' = st.bitmap_rows
          /\ ndefs' = [cp \in DOMAIN st.glyphs |-> 1]
    /\ pc' = "parse_bdf"
    /\ UNCHANGED <<argc, ext, nread, asm_fallback, table, desc, out, status,
                   diag, asmFile, seen>>

\* the history of the current definition after chunk c
SeenAfter(c) ==
    CASE c.kind = "enc"     -> [seen EXCEPT !.cp = c.cp, !.bad = FALSE]
      [] c.kind = "encbad"  -> [seen EXCEPT !.cp = None, !.bad = TRUE]
      [] c.kind = "bitmap"  -> [seen EXCEPT !.bitmap = TRUE, !.vals = <<>>]
      [] c.kind = "rows"    -> IF seen.bitmap
                               THEN [seen EXCEPT !.vals = seen.vals \o c.vals]
                               ELSE seen
      [] c.kind = "junk"    -> seen
      [] OTHER              -> SeenStart

\* whether chunk c completes a definition that has a codepoint and a BITMAP line
Completes(c) ==
    \/ c.kind = "def"
    \/ c.kind = "endchar" /\ seen.cp # None /\ seen.bitmap

\* the codepoint of the definition chunk c completes
CompletedCp(c) == IF c.kind = "def" THEN c.cp[1] ELSE seen.cp[1]

\* the row values of the definition chunk c completes
CompletedVals(c) == IF c.kind = "def" THEN c.vals ELSE seen.vals

\* parse_bdf reads the lines of chunk c
BdfRead(c) ==
    /\ pc = "parse_bdf"
    /\ nread < MaxSegs
    /\ LET st == BdfLoop(c.lines, 1, Len(c.lines),
                         [glyphs |-> glyphs, enc |-> enc, collecting |-> collecting,
                          bitmap_rows |-> bitmap_rows])
       IN  /\ glyphs' = st.glyphs
           /\ enc' = st.enc
           /\ collecting' = st.collecting
           /\ bitmap_rows' = st.bitmap_rows
    /\ nread' = nread + 1
    /\ seen' = SeenAfter(c)
    /\ ndefs' = IF Completes(c)
                THEN LET cp == CompletedCp(c)
                     IN  [k \in DOMAIN ndefs \cup {cp} |->
                            IF k = cp
                            THEN (IF cp \in DOMAIN ndefs THEN 2 ELSE 1)
                            ELSE ndefs[k]]
                ELSE ndefs
    /\ UNCHANGED <<pc, argc, ext, asm_fallback, table, desc, out, status, diag,
                   asmFile>>

\* the source ends: parse_bdf returns, the fallback is parsed, the table merged
BdfFinish ==
    /\ pc = "parse_bdf"
    /\ \E f \in AsmIds :
          /\ asmFile' = f
          /\ asm_fallback' = AsmParsed[f]
          /\ table' = MergeTable(glyphs, AsmParsed[f])
          /\ desc' = BdfDesc(AsmParsed[f])
    /\ enc' = None
    /\ collecting' = FALSE
    /\ bitmap_rows' = <<>>
    /\ nread' = 0
    /\ seen' = SeenStart
    /\ pc' = "emit"
    /\ UNCHANGED <<argc, ext, glyphs, out, status, diag, ndefs>>

\* emit_c, then main returns 0
Emit ==
    /\ pc = "emit"
    /\ out' = Some([source |-> desc, glyphs |-> table])
    /\ status' = Some(0)
    /\ pc' = "exit"
    /\ UNCHANGED <<argc, ext, asm_fallback, table, desc, diag, asmFile>>
    /\ UNCHANGED bdfVars

Next ==
    \/ Usage
    \/ Unsupported
    \/ BuildAsm
    \/ BdfMissing
    \/ BdfOpen
    \/ \E i \in ChunkIds : BdfRead(BdfChunks[i])
    \/ BdfFinish
    \/ Emit

Spec == Init /\ [][Next]_vars

\* ------------------------------------------------------------- properties

IsBdf == ext = <<".", "b", "d", "f">>

IsAsm == ext = <<".", "a", "s", "m">>

\* legacy file f exists and has a marker line followed by at least 4096 rows
AsmGood(f) ==
    /\ f \in AsmIds
    /\ AsmFiles[f].exists
    /\ AsmFiles[f].label
    /\ AsmFiles[f].nrows >= NumRows

\* glyph i (from 0) of legacy file f, read off the rows written after its marker
AsmExpected(f, i) ==
    [j \in 1..GlyphHeight |-> AsmRowVal(AsmFiles[f].mult, i * GlyphHeight + (j - 1))]

\* the first 16 of vals, then zeros
Pad16(vals) == [j \in 1..GlyphHeight |-> IF j <= Len(vals) THEN vals[j] ELSE 0]

\* t is 256 glyphs of 16 bytes
FullTable(t) ==
    /\ Len(t) = NumGlyphs
    /\ \A i \in 1..NumGlyphs : Len(t[i]) = GlyphHeight

\* the description carries the fallback note
HasNote(d) == \E k \in 1..Len(d) : d[k] = FALLBACK_NOTE

\* C1: in .bdf mode the table has 256 entries and entry cp is the primary
\* glyph of cp if the primary mapping has cp, else glyph cp of the fallback
\* file if that file parses, else sixteen zero bytes.
C1_ThreeTierLookup ==
    (IsBdf /\ table # None) =>
        /\ Len(table) = NumGlyphs
        /\ \A cp \in 0..(NumGlyphs - 1) :
              table[cp + 1] = IF cp \in DOMAIN glyphs THEN glyphs[cp]
                              ELSE IF AsmGood(asmFile) THEN AsmExpected(asmFile, cp)
                              ELSE ZeroGlyph

\* a finished .bdf run whose table has a primary glyph (5) that differs from
\* the fallback's, and a fallback glyph (300 is no table entry; 6 is missing)
C1_Witness ==
    /\ pc = "exit"
    /\ IsBdf
    /\ AsmGood(asmFile)
    /\ 5 \in DOMAIN glyphs
    /\ 6 \notin DOMAIN glyphs
    /\ table[6] = glyphs[5]
    /\ table[6] # AsmExpected(asmFile, 5)
    /\ table[7] = AsmExpected(asmFile, 6)
    /\ table[7] # ZeroGlyph

\* the run is on one of the fatal paths
Fatal ==
    \/ argc < 3
    \/ ~IsBdf /\ ~IsAsm
    \/ IsAsm /\ asmFile # 0 /\ ~AsmGood(asmFile)

\* C2: the output is opened only by a run that built a full table; on the
\* fatal paths the run ends with a nonzero status and the output unopened.
C2_AllOrNothing ==
    /\ pc # "exit" => out = None /\ status = None
    /\ pc = "exit" =>
          /\ status # None
          /\ Fatal => status[1] # 0 /\ out = None
          /\ out # None => status = Some(0) /\ FullTable(out[1].glyphs)
          /\ out = None => status[1] # 0

\* a legacy-only run on the short file has ended
C2_Witness ==
    /\ pc = "exit"
    /\ IsAsm
    /\ asmFile # 0
    /\ AsmFiles[asmFile].label
    /\ AsmFiles[asmFile].nrows = ShortRows
    /\ status = Some(1)
    /\ out = None

\* what parse_asm returned when it was called
AsmResult == IF IsAsm THEN table ELSE asm_fallback

\* C3: for a legacy file with at least 4096 rows after its marker, parse_asm
\* returns 256 glyphs of 16 bytes, glyph i byte j the (i*16+j)-th such row.
C3_LegacySlicing ==
    (asmFile # 0 /\ AsmGood(asmFile)) =>
        /\ FullTable(AsmResult)
        /\ \A i \in 0..(NumGlyphs - 1) : AsmResult[i + 1] = AsmExpected(asmFile, i)

\* parse_asm has read the file with rows before the marker, junk lines
\* between the rows and rows after the 4096th
C3_Witness ==
    /\ asmFile # 0
    /\ AsmGood(asmFile)
    /\ AsmFiles[asmFile].nrows > NumRows
    /\ AsmFiles[asmFile].mult # 0
    /\ IsAsm
    /\ pc = "exit"
    /\ out # None
    /\ out[1].glyphs[2] = AsmExpected(asmFile, 1)

\* C4: parse_asm returns None for a missing file, a file without marker and a
\* file with fewer than 4096 rows after the marker; a .bdf run goes on with no
\* fallback and ends with a full table and status 0 (a legacy-only run reports
\* the failed parse).
C4_FallbackAbsorbed ==
    (asmFile # 0 /\ ~AsmGood(asmFile)) =>
        IF IsBdf
        THEN /\ asm_fallback = None
             /\ pc \in {"emit", "exit"}
             /\ diag = None
             /\ FullTable(table)
             /\ pc = "exit" => status = Some(0) /\ out # None /\ FullTable(out[1].glyphs)
        ELSE /\ table = None
             /\ diag = Some("Failed to parse ASM font table")

\* a .bdf run has ended whose fallback had 4096 rows before the marker and
\* 4095 after it
C4_Witness ==
    /\ pc = "exit"
    /\ IsBdf
    /\ asmFile # 0
    /\ AsmFiles[asmFile].label
    /\ AsmFiles[asmFile].nrows = NumRows - 1
    /\ status = Some(0)
    /\ out # None

\* every stored glyph has 16 bytes
AllSixteen == \A cp \in DOMAIN glyphs : Len(glyphs[cp]) = GlyphHeight

\* C5: every glyph parse_bdf stores has exactly 16 bytes: the first min(n,16)
\* of the n rows the definition supplied, in input order, then zeros.
C5_GlyphSixteenBytes ==
    /\ []AllSixteen
    /\ [][\A i \in ChunkIds :
            LET c == BdfChunks[i]
            IN  (BdfRead(c) /\ Completes(c)) =>
                    LET cp   == CompletedCp(c)
                        vals == CompletedVals(c)
                    IN  /\ cp \in DOMAIN glyphs'
                        /\ Len(glyphs'[cp]) = GlyphHeight
                        /\ \A j \in 1..GlyphHeight :
                              glyphs'[cp][j] = IF j <= Len(vals) THEN vals[j] ELSE 0]_vars

\* a glyph stored from 17 rows (one row, then a run of 16): the 17th is gone
C5_Witness ==
    /\ pc = "parse_bdf"
    /\ 300 \in DOMAIN glyphs
    /\ glyphs[300][1] = 255
    /\ \A j \in 2..GlyphHeight : glyphs[300][j] = RunVal(GlyphHeight, j - 1)

\* C6: the description carries the fallback note exactly if some codepoint of
\* the table was taken from the fallback.
C6_NoteIffContributed ==
    (pc = "exit" /\ IsBdf /\ out # None) =>
        (HasNote(out[1].source) <=>
            (AsmGood(asmFile) /\ \E cp \in 0..(NumGlyphs - 1) : cp \notin DOMAIN glyphs))

\* C7: a definition of a codepoint that already has a glyph replaces it and
\* changes no other entry; a definition of a codepoint outside 0..255 is kept
\* in the mapping and changes no entry of the table, whatever the fallback.
C7_LastDefinitionWins ==
    [][\A i \in ChunkIds :
          LET c == BdfChunks[i]
          IN  (BdfRead(c) /\ Completes(c)) =>
                  LET cp == CompletedCp(c)
                  IN  /\ DOMAIN glyphs' = DOMAIN glyphs \cup {cp}
                      /\ glyphs'[cp] = Pad16(CompletedVals(c))
                      /\ \A k \in DOMAIN glyphs \ {cp} : glyphs'[k] = glyphs[k]
                      /\ cp \notin 0..(NumGlyphs - 1) =>
                            \A f \in AsmIds :
                                MergeTable(glyphs', AsmParsed[f])
                                  = MergeTable(glyphs, AsmParsed[f])]_vars

\* a finished run: codepoint 5 was defined twice (by the font, then again),
\* the table has the later glyph, and 300 is in the mapping
C7_Witness ==
    /\ pc = "exit"
    /\ IsBdf
    /\ 5 \in DOMAIN ndefs
    /\ ndefs[5] = 2
    /\ 300 \in DOMAIN glyphs
    /\ glyphs[5] # Pad16(FontVals(5))
    /\ table[6] = glyphs[5]
    /\ table[5] = Pad16(FontVals(4))

\* C8 as stated: at every ENDCHAR with a parsed codepoint a glyph is stored
C8_StoredWheneverCodepoint ==
    [][\A i \in ChunkIds :
          LET c == BdfChunks[i]
          IN  (BdfRead(c) /\ c.kind = "endchar" /\ seen.cp # None) =>
                  /\ seen.cp[1] \in DOMAIN glyphs'
                  /\ glyphs'[seen.cp[1]] = Pad16(seen.vals)]_vars

\* C8, amended: at an ENDCHAR with a parsed codepoint and a BITMAP line since
\* the previous ENDCHAR, the rows collected (none included), padded to 16, are
\* stored under the codepoint; at any other ENDCHAR the mapping is unchanged.
\* A stored all-zero glyph is the table's entry, whatever the fallback.
C8_StoredIfCodepointAndBitmap ==
    /\ [][\A i \in ChunkIds :
            LET c == BdfChunks[i]
            IN  (BdfRead(c) /\ c.kind = "endchar") =>
                    IF seen.cp # None /\ seen.bitmap
                    THEN /\ seen.cp[1] \in DOMAIN glyphs'
                         /\ glyphs'[seen.cp[1]] = Pad16(seen.vals)
                    ELSE glyphs' = glyphs]_vars
    /\ [](\A cp \in 0..(NumGlyphs - 1) :
            (IsBdf /\ table # None /\ cp \in DOMAIN glyphs /\ glyphs[cp] = ZeroGlyph)
                => table[cp + 1] = ZeroGlyph)

\* a finished run: 5 was defined once, with no rows, and the table has its
\* all-zero glyph though the fallback has another
C8_Witness ==
    /\ pc = "exit"
    /\ IsBdf
    /\ AsmGood(asmFile)
    /\ AsmExpected(asmFile, 5) # ZeroGlyph
    /\ 5 \in DOMAIN glyphs
    /\ ndefs[5] = 1
    /\ 6 \notin DOMAIN glyphs
    /\ glyphs[5] = ZeroGlyph
    /\ table[6] = ZeroGlyph

\* C9: an ENCODING line whose value int cannot parse leaves enc None and the
\* mapping as it was; the ENDCHAR of that definition stores nothing, and
\* parse_bdf goes on from its initial locals.
C9_BadEncodingDropped ==
    [][\A i \in ChunkIds :
          LET c == BdfChunks[i]
          IN  /\ (BdfRead(c) /\ c.kind = "encbad") =>
                    enc' = None /\ glyphs' = glyphs /\ pc' = "parse_bdf"
              /\ (BdfRead(c) /\ c.kind = "endchar" /\ seen.bad) =>
                    /\ glyphs' = glyphs
                    /\ pc' = "parse_bdf"
                    /\ enc' = None
                    /\ collecting' = FALSE
                    /\ bitmap_rows' = <<>>]_vars

\* a definition with an unparseable ENCODING value has a BITMAP line and a
\* row, after codepoint 5 was stored
C9_Witness ==
    /\ pc = "parse_bdf"
    /\ seen.bad
    /\ seen.bitmap
    /\ seen.vals # <<>>
    /\ enc = None
    /\ bitmap_rows # <<>>
    /\ DOMAIN glyphs = {5}

\* the locals of parse_bdf agree with the input of the current definition
LocalsOfDefinition ==
    pc = "parse_bdf" =>
        /\ enc = seen.cp
        /\ collecting = seen.bitmap
        /\ Len(bitmap_rows) = Len(seen.vals)

\* C10: after every ENDCHAR the locals are the initial ones; a glyph stored
\* there has only rows read since the latest BITMAP line of that definition,
\* under the codepoint declared in that definition.
C10_NoLeakAcrossEndchar ==
    /\ []LocalsOfDefinition
    /\ [][\A i \in ChunkIds :
            LET c == BdfChunks[i]
            IN  (BdfRead(c) /\ c.kind \in {"endchar", "def"}) =>
                    /\ enc' = None
                    /\ collecting' = FALSE
                    /\ bitmap_rows' = <<>>
                    /\ glyphs' # glyphs =>
                          /\ Completes(c)
                          /\ \A k \in DOMAIN glyphs' \ {CompletedCp(c)} :
                                k \in DOMAIN glyphs /\ glyphs'[k] = glyphs[k]
                          /\ \A j \in 1..GlyphHeight :
                                glyphs'[CompletedCp(c)][j] # 0 =>
                                    /\ j <= Len(CompletedVals(c))
                                    /\ glyphs'[CompletedCp(c)][j] = CompletedVals(c)[j]]_vars

\* two definitions have ended: 5 (one row, 0xA5), then 300 (one row, 0xFF)
C10_Witness ==
    /\ pc = "parse_bdf"
    /\ seen = SeenStart
    /\ enc = None
    /\ collecting = FALSE
    /\ bitmap_rows = <<>>
    /\ DOMAIN glyphs = {5, 300}
    /\ glyphs[5] = Pad16(<<165>>)
    /\ glyphs[300] = Pad16(<<255>>)

====
